---- MODULE Spec2Model ----
(***************************************************************************)
(* time-to-boot-server: the benchmark driver of main.go as a state         *)
(* machine.  One sequential driver (main -> benchmark -> measure) runs     *)
(* against an environment made of the spawned child process, the clock     *)
(* and the network (the outcome of each connection attempt).               *)
(*                                                                         *)
(* Durations are counted in abstract clock ticks; all values stay far      *)
(* below 2^53, where float64(duration.Nanoseconds()) and                   *)
(* time.Duration(int64(f)) are exact.                                      *)
(***************************************************************************)
EXTENDS Integers, Sequences, FiniteSets, TLC

\* ---------------------------------------------------------------- bounds
MaxDryRuns  == 1      \* --dry-runs ranges over 0..MaxDryRuns
MaxRuns     == 2      \* --runs ranges over 0..MaxRuns
MaxAttempts == 2      \* failed attempts remembered per cycle (the loop itself is not capped)
MaxClock    == 2      \* the clock stops advancing at MaxClock
MaxBody     == 1      \* length of an HTTP response body
MaxStatRuns == 5      \* size of the run sets the statistics are checked on

\* ------------------------------------------------------- input domains
Modes       == {"tcp-connect", "http-get", "bogus"}
Executables == {"", "server"}
StatusCodes == {200, 204, 404}
StatValues  == {10, 20, 30, 40, 1000}   \* durations of the run sets of StatsSpec

\* percentiles of benchmark, in tenths of a percent
percentiles == <<750, 800, 850, 900, 950, 975, 980, 990, 999, 1000>>

VARIABLES
  mode, executable, dryRuns, runs,  \* the flags of main
  pc,          \* position of the driver
  err,         \* the error met by the driver: "none", "no-executable", "unknown-mode", "spawn"
  phase,       \* which loop of benchmark is running: "none", "dry", "run", "stats"
  i,           \* loop index of the running loop of benchmark
  now,         \* the clock
  start,       \* measure: start
  duration,    \* measure: duration (and the value it returned)
  durations,   \* benchmark: durations
  children,    \* one record per started child: [st, sig]
  cmd,         \* measure: cmd, as an index into children (0: nil)
  lastProbe,   \* measure: outcome of the latest connectionFunction(target) of the cycle
  attempts,    \* results of the attempts of the cycle (failures beyond MaxAttempts are not remembered)
  held,        \* resource opened by the successful attempt: "none", "open", "closed"
  unreleased,  \* responses with a non-200 status that nobody closed
  pauses,      \* number of time.Sleep(pauseBetweenRuns) done
  measured,    \* the values returned by measure, in order, with the loop that asked
  output       \* what was printed, in order

vars == <<mode, executable, dryRuns, runs, pc, err, phase, i, now, start,
          duration, durations, children, cmd, lastProbe, attempts, held,
          unreleased, pauses, measured, output>>

config == <<mode, executable, dryRuns, runs>>

\* ------------------------------------------------------------- helpers
NoProbe == [kind |-> "none", err |-> FALSE, code |-> 0, body |-> 0,
            readable |-> 0, status |-> FALSE, houseKeeper |-> "nil", read |-> 0]

Line(cat, val) == [cat |-> cat, val |-> val]

Alive(c) == c.st \in {"running", "signalled"}

\* ------------------------------------------------------------ probers
\* net.Dial outcome: dialErr
TCPOutcomes == {[err |-> e] : e \in BOOLEAN}

\* http.Get outcome: transport error, or a response with a status code and
\* a body of `body` bytes of which `readable` can be read before the stream
\* ends (readable < body: the read fails before EOF).
HTTPOutcomes ==
  {[err |-> TRUE, code |-> 0, body |-> 0, readable |-> 0]} \cup
  {o \in [err : {FALSE}, code : StatusCodes, body : 0..MaxBody, readable : 0..MaxBody] :
      o.readable <= o.body}

\* ioutil.ReadAll: reads until EOF or the first error; result and error are dropped
ReadAll(o) == IF o.readable < o.body THEN o.readable ELSE o.body

tryConnectingWithTCP(o) ==
  IF ~o.err
  THEN [kind |-> "tcp", err |-> o.err, code |-> 0, body |-> 0, readable |-> 0,
        status |-> TRUE, houseKeeper |-> "conn.Close", read |-> 0]
  ELSE [kind |-> "tcp", err |-> o.err, code |-> 0, body |-> 0, readable |-> 0,
        status |-> FALSE, houseKeeper |-> "nil", read |-> 0]

\* variant: success is reported without a release action
tryConnectingWithHTTPGetNoRelease(o) ==
  IF ~o.err /\ o.code = 200
  THEN [kind |-> "http", err |-> o.err, code |-> o.code, body |-> o.body,
        readable |-> o.readable,
        status |-> TRUE, houseKeeper |-> "nil", read |-> ReadAll(o)]
  ELSE [kind |-> "http", err |-> o.err, code |-> o.code, body |-> o.body,
        readable |-> o.readable,
        status |-> FALSE, houseKeeper |-> "nil", read |-> 0]

tryConnectingWithHTTPGet(o) ==
  IF ~o.err /\ o.code = 200
  THEN [kind |-> "http", err |-> o.err, code |-> o.code, body |-> o.body,
        readable |-> o.readable,
        status |-> TRUE, houseKeeper |-> "resp.Body.Close", read |-> ReadAll(o)]
  ELSE [kind |-> "http", err |-> o.err, code |-> o.code, body |-> o.body,
        readable |-> o.readable,
        status |-> FALSE, houseKeeper |-> "nil", read |-> 0]

connectionFunctionFor(m) ==
  IF m = "tcp-connect" THEN "tryConnectingWithTCP"
  ELSE IF m = "http-get" THEN "tryConnectingWithHTTPGet"
  ELSE "log.Fatal"

\* the results connectionFunction(target) can produce
ProbeResults(m) ==
  IF connectionFunctionFor(m) = "tryConnectingWithTCP"
  THEN {tryConnectingWithTCP(o) : o \in TCPOutcomes}
  ELSE {tryConnectingWithHTTPGet(o) : o \in HTTPOutcomes}

\* ---------------------------------------------------------------- Init
\* The flags as main hands them to app.Action.  dry-runs and runs are taken
\* non-negative: a negative dry-runs behaves as 0, a negative runs makes
\* make([]float64, runs) panic.
Init ==
  /\ mode \in Modes
  /\ executable \in Executables
  /\ dryRuns \in 0..MaxDryRuns
  /\ runs \in 0..MaxRuns
  /\ pc = "main"
  /\ err = "none"
  /\ phase = "none"
  /\ i = 0
  /\ now = 0
  /\ start = 0
  /\ duration = 0
  /\ durations = <<>>
  /\ children = <<>>
  /\ cmd = 0
  /\ lastProbe = NoProbe
  /\ attempts = <<>>
  /\ held = "none"
  /\ unreleased = 0
  /\ pauses = 0
  /\ measured = <<>>
  /\ output = <<>>

\* ---------------------------------------------------------------- main
\* app.Action
Main ==
  /\ pc = "main"
  /\ IF executable = ""
     THEN pc' = "fatal" /\ err' = "no-executable"
     ELSE pc' = "dry_header" /\ err' = err
  /\ UNCHANGED <<config, phase, i, now, start, duration, durations, children,
                 cmd, lastProbe, attempts, held, unreleased, pauses, measured,
                 output>>

\* ------------------------------------------------------------- measure
\* connectionFunction := connectionFunctionFor(mode)
Resolve ==
  /\ pc = "m_resolve"
  /\ IF connectionFunctionFor(mode) = "log.Fatal"
     THEN pc' = "fatal" /\ err' = "unknown-mode"
     ELSE pc' = "m_start" /\ err' = err
  /\ lastProbe' = NoProbe
  /\ attempts' = <<>>
  /\ held' = "none"
  /\ cmd' = 0
  /\ UNCHANGED <<config, phase, i, now, start, duration, durations, children,
                 unreleased, pauses, measured, output>>

\* start := time.Now()
Start ==
  /\ pc = "m_start"
  /\ start' = now
  /\ pc' = "m_boot"
  /\ UNCHANGED <<config, err, phase, i, now, duration, durations, children,
                 cmd, lastProbe, attempts, held, unreleased, pauses, measured,
                 output>>

\* variant: the error of boot is not tested
afterBootIgnoringErr(started) == "m_poll"

\* if err != nil { log.Fatal(err) }
afterBoot(started) == IF started THEN "m_poll" ELSE "fatal"

\* variant: a start that fails leaves a running process behind
bootKeepsFailedChild ==
  /\ pc = "m_boot"
  /\ \E started \in BOOLEAN :
       /\ children' = Append(children, [st |-> "running", sig |-> FALSE])
       /\ cmd' = IF started THEN Len(children) + 1 ELSE 0
       /\ pc' = afterBoot(started)
       /\ err' = IF started THEN "none" ELSE "spawn"
  /\ UNCHANGED <<config, phase, i, now, start, duration, durations, lastProbe,
                 attempts, held, unreleased, pauses, measured, output>>

\* cmd, err := boot(command, args...): cmd.Start() succeeds or fails
boot ==
  /\ pc = "m_boot"
  /\ \E started \in BOOLEAN :
       /\ IF started
          THEN /\ children' = Append(children, [st |-> "running", sig |-> FALSE])
               /\ cmd' = Len(children) + 1
          ELSE /\ children' = children
               /\ cmd' = 0
       /\ pc' = afterBoot(started)
       /\ err' = IF started THEN "none" ELSE "spawn"
  /\ UNCHANGED <<config, phase, i, now, start, duration, durations, lastProbe,
                 attempts, held, unreleased, pauses, measured, output>>

\* variant: the loop is left after any attempt
afterProbeAnyStatus(r) == "m_since"

\* for { if status, houseKeeper := connectionFunction(target); status == true {...} }
afterProbe(r) == IF r.status = TRUE THEN "m_since" ELSE "m_poll"

\* variant: the loop gives up after MaxAttempts failed attempts and tears down
ProbeWithTimeout ==
  /\ pc = "m_poll"
  /\ \E r \in ProbeResults(mode) :
       /\ lastProbe' = r
       /\ attempts' = IF r.status \/ Len(attempts) < MaxAttempts
                      THEN Append(attempts, r.status)
                      ELSE attempts
       /\ held' = IF r.status THEN "open" ELSE held
       /\ unreleased' = IF r.kind = "http" /\ ~r.err /\ ~r.status
                           /\ unreleased < MaxAttempts
                        THEN unreleased + 1
                        ELSE unreleased
       /\ pc' = IF ~r.status /\ Len(attempts) >= MaxAttempts
                THEN "m_kill"
                ELSE afterProbe(r)
  /\ UNCHANGED <<config, err, phase, i, now, start, duration, durations,
                 children, cmd, pauses, measured, output>>

\* variant: the response of a failed attempt is closed
leaksNothing(r) == FALSE

\* the attempt leaves an open response behind: http.Get returned a response
\* and the check returned false without closing its body
leaks(r) == r.kind = "http" /\ ~r.err /\ ~r.status

\* variant: the clock is restarted at every failed attempt
ProbeRestartingClock ==
  /\ pc = "m_poll"
  /\ \E r \in ProbeResults(mode) :
       /\ lastProbe' = r
       /\ attempts' = IF r.status \/ Len(attempts) < MaxAttempts
                      THEN Append(attempts, r.status)
                      ELSE attempts
       /\ held' = IF r.status THEN "open" ELSE held
       /\ unreleased' = IF leaks(r) /\ unreleased < MaxAttempts
                        THEN unreleased + 1
                        ELSE unreleased
       /\ start' = IF r.status THEN start ELSE now
       /\ pc' = afterProbe(r)
  /\ UNCHANGED <<config, err, phase, i, now, duration, durations,
                 children, cmd, pauses, measured, output>>

\* one iteration of the polling loop: one connection attempt
Probe ==
  /\ pc = "m_poll"
  /\ \E r \in ProbeResults(mode) :
       /\ lastProbe' = r
       /\ attempts' = IF r.status \/ Len(attempts) < MaxAttempts
                      THEN Append(attempts, r.status)
                      ELSE attempts
       /\ held' = IF r.status THEN "open" ELSE held
       /\ unreleased' = IF leaks(r) /\ unreleased < MaxAttempts
                        THEN unreleased + 1
                        ELSE unreleased
       /\ pc' = afterProbe(r)
  /\ UNCHANGED <<config, err, phase, i, now, start, duration, durations,
                 children, cmd, pauses, measured, output>>

\* duration := time.Since(start)
Since ==
  /\ pc = "m_since"
  /\ duration' = now - start
  /\ pc' = "m_release"
  /\ UNCHANGED <<config, err, phase, i, now, start, durations, children, cmd,
                 lastProbe, attempts, held, unreleased, pauses, measured,
                 output>>

\* houseKeeper(): calling a nil func panics
Release ==
  /\ pc = "m_release"
  /\ IF lastProbe.houseKeeper = "nil"
     THEN pc' = "panic" /\ held' = held
     ELSE pc' = "m_kill" /\ held' = "closed"
  /\ UNCHANGED <<config, err, phase, i, now, start, duration, durations,
                 children, cmd, lastProbe, attempts, unreleased, pauses,
                 measured, output>>

\* variant: no signal is sent to the child
KillNoSignal ==
  /\ pc = "m_kill"
  /\ IF cmd = 0
     THEN pc' = "panic" /\ children' = children
     ELSE pc' = "m_wait" /\ children' = children
  /\ UNCHANGED <<config, err, phase, i, now, start, duration, durations, cmd,
                 lastProbe, attempts, held, unreleased, pauses, measured,
                 output>>

\* cmd.Process.Kill(): the signal is sent whether or not the child still runs
Kill ==
  /\ pc = "m_kill"
  /\ IF cmd = 0
     THEN pc' = "panic" /\ children' = children
     ELSE /\ pc' = "m_wait"
          /\ children' = [children EXCEPT ![cmd] =
                 [st  |-> IF @.st = "running" THEN "signalled" ELSE @.st,
                  sig |-> TRUE]]
  /\ UNCHANGED <<config, err, phase, i, now, start, duration, durations, cmd,
                 lastProbe, attempts, held, unreleased, pauses, measured,
                 output>>

\* variant: the child is not waited for
WaitReturnsAtOnce(c) == TRUE

\* cmd.Process.Wait() blocks until the child has exited
WaitReturns(c) == c.st = "zombie"

\* variant: the duration is taken when measure returns
WaitMeasuresLate ==
  /\ pc = "m_wait"
  /\ WaitReturns(children[cmd])
  /\ children' = [children EXCEPT ![cmd].st =
                     IF @ = "zombie" THEN "reaped" ELSE @]
  /\ duration' = now - start
  /\ measured' = Append(measured, [phase |-> phase, val |-> now - start])
  /\ lastProbe' = NoProbe
  /\ pc' = IF phase = "dry" THEN "dry_report" ELSE "run_record"
  /\ UNCHANGED <<config, err, phase, i, now, start, durations, cmd,
                 attempts, held, unreleased, pauses, output>>

\* cmd.Process.Wait(); return duration
Wait ==
  /\ pc = "m_wait"
  /\ WaitReturns(children[cmd])
  /\ children' = [children EXCEPT ![cmd].st =
                     IF @ = "zombie" THEN "reaped" ELSE @]
  /\ measured' = Append(measured, [phase |-> phase, val |-> duration])
  /\ lastProbe' = NoProbe
  /\ pc' = IF phase = "dry" THEN "dry_report" ELSE "run_record"
  /\ UNCHANGED <<config, err, phase, i, now, start, duration, durations, cmd,
                 attempts, held, unreleased, pauses, output>>

\* ----------------------------------------------------------- benchmark
\* color.Cyan("Dry runs"); i := 0
DryHeader ==
  /\ pc = "dry_header"
  /\ output' = Append(output, [cat |-> "dry-header"])
  /\ phase' = "dry"
  /\ i' = 0
  /\ pc' = "dry_loop"
  /\ UNCHANGED <<config, err, now, start, duration, durations, children, cmd,
                 lastProbe, attempts, held, unreleased, pauses, measured>>

\* for i := 0; i < dryRuns; i++ { duration := measure(...)
DryLoop ==
  /\ pc = "dry_loop"
  /\ pc' = IF i < dryRuns THEN "m_resolve" ELSE "make"
  /\ UNCHANGED <<config, err, phase, i, now, start, duration, durations,
                 children, cmd, lastProbe, attempts, held, unreleased, pauses,
                 measured, output>>

\* color.Cyan("  - %s", duration)
DryReport ==
  /\ pc = "dry_report"
  /\ output' = Append(output, Line("dry", duration))
  /\ pc' = "dry_sleep"
  /\ UNCHANGED <<config, err, phase, i, now, start, duration, durations,
                 children, cmd, lastProbe, attempts, held, unreleased, pauses,
                 measured>>

\* time.Sleep(pauseBetweenRuns); i++
DrySleep ==
  /\ pc = "dry_sleep"
  /\ pauses' = pauses + 1
  /\ i' = i + 1
  /\ pc' = "dry_loop"
  /\ UNCHANGED <<config, err, phase, now, start, duration, durations, children,
                 cmd, lastProbe, attempts, held, unreleased, measured, output>>

\* durations := make([]float64, runs); color.Green("Runs"); i := 0
Make ==
  /\ pc = "make"
  /\ durations' = [k \in 1..runs |-> 0]
  /\ output' = Append(output, [cat |-> "run-header"])
  /\ phase' = "run"
  /\ i' = 0
  /\ pc' = "run_loop"
  /\ UNCHANGED <<config, err, now, start, duration, children, cmd, lastProbe,
                 attempts, held, unreleased, pauses, measured>>

\* variant: the loop of the counted runs stops one run early
RunLoopShort ==
  /\ pc = "run_loop"
  /\ pc' = IF i < runs - 1 THEN "m_resolve" ELSE "stat_min"
  /\ phase' = IF i < runs - 1 THEN phase ELSE "stats"
  /\ UNCHANGED <<config, err, i, now, start, duration, durations, children,
                 cmd, lastProbe, attempts, held, unreleased, pauses, measured,
                 output>>

\* for i := 0; i < runs; i++ { duration := measure(...)
RunLoop ==
  /\ pc = "run_loop"
  /\ pc' = IF i < runs THEN "m_resolve" ELSE "stat_min"
  /\ phase' = IF i < runs THEN phase ELSE "stats"
  /\ UNCHANGED <<config, err, i, now, start, duration, durations, children,
                 cmd, lastProbe, attempts, held, unreleased, pauses, measured,
                 output>>

\* variant: every duration is stored in the first slot
RunRecordFirstSlot ==
  /\ pc = "run_record"
  /\ durations' = [durations EXCEPT ![1] = duration]
  /\ output' = Append(output, Line("run", duration))
  /\ pc' = "run_sleep"
  /\ UNCHANGED <<config, err, phase, i, now, start, duration, children, cmd,
                 lastProbe, attempts, held, unreleased, pauses, measured>>

\* durations[i] = float64(duration.Nanoseconds()); color.Green("  - %s", duration)
RunRecord ==
  /\ pc = "run_record"
  /\ durations' = [durations EXCEPT ![i + 1] = duration]
  /\ output' = Append(output, Line("run", duration))
  /\ pc' = "run_sleep"
  /\ UNCHANGED <<config, err, phase, i, now, start, duration, children, cmd,
                 lastProbe, attempts, held, unreleased, pauses, measured>>

\* variant: no pause after the last counted run
RunSleepBetweenRuns ==
  /\ pc = "run_sleep"
  /\ pauses' = IF i < runs - 1 THEN pauses + 1 ELSE pauses
  /\ i' = i + 1
  /\ pc' = "run_loop"
  /\ UNCHANGED <<config, err, phase, now, start, duration, durations, children,
                 cmd, lastProbe, attempts, held, unreleased, measured, output>>

\* time.Sleep(pauseBetweenRuns); i++
RunSleep ==
  /\ pc = "run_sleep"
  /\ pauses' = pauses + 1
  /\ i' = i + 1
  /\ pc' = "run_loop"
  /\ UNCHANGED <<config, err, phase, now, start, duration, durations, children,
                 cmd, lastProbe, attempts, held, unreleased, measured, output>>

\* ------------------------------------------- the statistics functions
\* A float64 is a rational [num, den]; den = 0 is NaN, the value a statistic
\* has on an empty input.  The functions below are the descriptive
\* statistics the benchmark calls (package stats), by their standard
\* formulas: minimum, maximum, median, population standard deviation,
\* linear-interpolation percentile, and Tukey fences over Q1 and Q3.
NaN == [num |-> 0, den |-> 0]

Float(n) == [num |-> n, den |-> 1]

RECURSIVE Sum(_)
Sum(d) == IF d = <<>> THEN 0 ELSE d[1] + Sum(Tail(d))

RECURSIVE SumSq(_)
SumSq(d) == IF d = <<>> THEN 0 ELSE d[1] * d[1] + SumSq(Tail(d))

Sorted(d) == SortSeq(d, LAMBDA a, b : a < b)

\* largest r with r * r <= x, for 0 <= x and a known upper bound of the root
ISqrt(x, hi) == CHOOSE r \in 0..hi : r * r <= x /\ (r + 1) * (r + 1) > x

statsMin(d) ==
  IF d = <<>> THEN NaN
  ELSE Float(CHOOSE m \in {d[k] : k \in 1..Len(d)} :
               \A k \in 1..Len(d) : m <= d[k])

statsMax(d) ==
  IF d = <<>> THEN NaN
  ELSE Float(CHOOSE m \in {d[k] : k \in 1..Len(d)} :
               \A k \in 1..Len(d) : m >= d[k])

\* middle value of the sorted copy, or the mean of the two middle values
statsMedian(d) ==
  IF d = <<>> THEN NaN
  ELSE LET c == Sorted(d)
           n == Len(d)
       IN  IF n % 2 = 1
           THEN Float(c[(n + 1) \div 2])
           ELSE [num |-> c[n \div 2] + c[n \div 2 + 1], den |-> 2]

\* population standard deviation, sqrt((n * sum(x^2) - sum(x)^2) / n^2);
\* only its integer part is kept, which is all that is printed
statsStandardDeviation(d) ==
  IF d = <<>> THEN NaN
  ELSE LET n == Len(d)
           v == (n * SumSq(d) - Sum(d) * Sum(d)) \div (n * n)
       IN  Float(ISqrt(v, statsMax(d).num - statsMin(d).num))

\* linear interpolation between the two closest ranks of the sorted copy;
\* p is in tenths of a percent, the rank of p is p * (n - 1) / 1000
statsPercentile(d, p) ==
  IF d = <<>> THEN NaN
  ELSE LET c   == Sorted(d)
           pos == p * (Len(d) - 1)
           lo  == pos \div 1000 + 1
           rem == pos % 1000
           hi  == IF rem = 0 THEN lo ELSE lo + 1
       IN  [num |-> 1000 * c[lo] + rem * (c[hi] - c[lo]), den |-> 1000]

\* one value against the fences: "extreme" beyond 3 * IQR from the nearest
\* quartile, else "mild" beyond 1.5 * IQR, else "none"; q1, q3 in 1/1000
Fence(v, q1, q3) ==
  LET iqr == q3 - q1
  IN  IF 1000 * v < q1 - 3 * iqr \/ 1000 * v > q3 + 3 * iqr THEN "extreme"
      ELSE IF 2000 * v < 2 * q1 - 3 * iqr \/ 2000 * v > 2 * q3 + 3 * iqr THEN "mild"
      ELSE "none"

RECURSIVE Classified(_, _, _, _)
Classified(c, q1, q3, class) ==
  IF c = <<>> THEN <<>>
  ELSE (IF Fence(c[1], q1, q3) = class THEN <<Float(c[1])>> ELSE <<>>)
       \o Classified(Tail(c), q1, q3, class)

\* Outliers{Mild, Extreme}: the values of the sorted copy outside the fences
statsQuartileOutliers(d) ==
  IF d = <<>> THEN [Mild |-> <<>>, Extreme |-> <<>>]
  ELSE LET c  == Sorted(d)
           q1 == statsPercentile(d, 250).num
           q3 == statsPercentile(d, 750).num
       IN  [Mild    |-> Classified(c, q1, q3, "mild"),
            Extreme |-> Classified(c, q1, q3, "extreme")]

\* ------------------------------------------------------- conversions
\* time.Duration(int64(f)): truncation toward zero; the conversion of NaN
\* is implementation-dependent and is kept as such (nan)
float64ToDuration(f) ==
  IF f.den = 0 THEN [nan |-> TRUE, val |-> 0]
  ELSE [nan |-> FALSE,
        val |-> IF f.num >= 0 THEN f.num \div f.den
                ELSE -((-f.num) \div f.den)]

\* variant: the last value is not converted
float64DataToDurationsShort(data) ==
  [k \in 1..(Len(data) - 1) |-> float64ToDuration(data[k]).val]

float64DataToDurations(data) ==
  [k \in 1..Len(data) |-> float64ToDuration(data[k]).val]

\* ---------------------------------------------------------- statistics
\* The errors of the stats functions are dropped (min, _ := ...), so every
\* line below is printed whatever durations holds.
StatCats == {"min", "max", "median", "outliers-header", "mild", "extreme",
             "percentiles-header", "percentile"}

Report(lines, next) ==
  /\ output' = output \o lines
  /\ pc' = next
  /\ UNCHANGED <<config, err, phase, now, start, duration, durations, children,
                 cmd, lastProbe, attempts, held, unreleased, pauses, measured>>

\* variant: the Min line prints the maximum
StatMinOfMax ==
  /\ pc = "stat_min"
  /\ Report(<<[cat |-> "min", d |-> float64ToDuration(statsMax(durations))]>>,
            "stat_max")
  /\ i' = i

\* min, _ := stats.Min(durations); color.Yellow("Min: %s", ...)
StatMin ==
  /\ pc = "stat_min"
  /\ Report(<<[cat |-> "min", d |-> float64ToDuration(statsMin(durations))]>>,
            "stat_max")
  /\ i' = i

\* max, _ := stats.Max(durations); color.Yellow("Max: %s", ...)
StatMax ==
  /\ pc = "stat_max"
  /\ Report(<<[cat |-> "max", d |-> float64ToDuration(statsMax(durations))]>>,
            "stat_median")
  /\ i' = i

\* variant: the two arguments of the Median line are swapped
StatMedianSwapped ==
  /\ pc = "stat_median"
  /\ Report(<<[cat |-> "median",
               d   |-> float64ToDuration(statsStandardDeviation(durations)),
               dev |-> float64ToDuration(statsMedian(durations))]>>,
            "stat_outliers")
  /\ i' = i

\* med, _ := stats.Median(durations); dev, _ := stats.StandardDeviation(durations)
StatMedian ==
  /\ pc = "stat_median"
  /\ Report(<<[cat |-> "median",
               d   |-> float64ToDuration(statsMedian(durations)),
               dev |-> float64ToDuration(statsStandardDeviation(durations))]>>,
            "stat_outliers")
  /\ i' = i

\* outliers, _ := stats.QuartileOutliers(durations); three lines
StatOutliers ==
  /\ pc = "stat_outliers"
  /\ LET outliers == statsQuartileOutliers(durations)
     IN  Report(<<[cat |-> "outliers-header"],
                  [cat |-> "mild", ds |-> float64DataToDurations(outliers.Mild)],
                  [cat |-> "extreme", ds |-> float64DataToDurations(outliers.Extreme)]>>,
                "stat_percentiles")
  /\ i' = i

\* color.Yellow("Percentiles:"); for i := range percentiles {
StatPercentiles ==
  /\ pc = "stat_percentiles"
  /\ Report(<<[cat |-> "percentiles-header"]>>, "stat_percentile")
  /\ i' = 0

\* r, _ := stats.Percentile(durations, percentiles[i]); color.Yellow(...)
StatPercentile ==
  /\ pc = "stat_percentile"
  /\ IF i < Len(percentiles)
     THEN /\ Report(<<[cat |-> "percentile", p |-> percentiles[i + 1],
                       d |-> float64ToDuration(
                                statsPercentile(durations, percentiles[i + 1]))]>>,
                    "stat_percentile")
          /\ i' = i + 1
     ELSE /\ Report(<<>>, "done")
          /\ i' = i

\* --------------------------------------------------------- environment
\* the clock advances
Tick ==
  /\ now < MaxClock
  /\ now' = now + 1
  /\ UNCHANGED <<config, pc, err, phase, i, start, duration, durations,
                 children, cmd, lastProbe, attempts, held, unreleased, pauses,
                 measured, output>>

\* a running child exits by itself
ChildExits ==
  /\ \E c \in 1..Len(children) :
       /\ children[c].st = "running"
       /\ children' = [children EXCEPT ![c].st = "zombie"]
  /\ UNCHANGED <<config, pc, err, phase, i, now, start, duration, durations,
                 cmd, lastProbe, attempts, held, unreleased, pauses, measured,
                 output>>

\* a child that was sent the kill signal terminates
ChildDies ==
  /\ \E c \in 1..Len(children) :
       /\ children[c].st = "signalled"
       /\ children' = [children EXCEPT ![c].st = "zombie"]
  /\ UNCHANGED <<config, pc, err, phase, i, now, start, duration, durations,
                 cmd, lastProbe, attempts, held, unreleased, pauses, measured,
                 output>>

Next ==
  \/ Main
  \/ Resolve \/ Start \/ boot \/ Probe \/ Since \/ Release \/ Kill \/ Wait
  \/ DryHeader \/ DryLoop \/ DryReport \/ DrySleep
  \/ Make \/ RunLoop \/ RunRecord \/ RunSleep
  \/ StatMin \/ StatMax \/ StatMedian \/ StatOutliers
  \/ StatPercentiles \/ StatPercentile
  \/ Tick \/ ChildExits \/ ChildDies

Spec == Init /\ [][Next]_vars

\* the steps of the tool itself: one thread that runs whenever it can
Driver ==
  \/ Main
  \/ Resolve \/ Start \/ boot \/ Probe \/ Since \/ Release \/ Kill \/ Wait
  \/ DryHeader \/ DryLoop \/ DryReport \/ DrySleep
  \/ Make \/ RunLoop \/ RunRecord \/ RunSleep
  \/ StatMin \/ StatMax \/ StatMedian \/ StatOutliers
  \/ StatPercentiles \/ StatPercentile

\* The tool keeps running (no step of it is postponed forever) and a child
\* that was sent SIGKILL terminates.  Nothing is assumed of the clock, of the
\* outcome of an attempt or of a child exiting by itself.
LiveSpec == Init /\ [][Next]_vars /\ WF_vars(Driver) /\ WF_vars(ChildDies)

\* ------------------------------------------- the statistics block alone
\* benchmark at the end of the run loop, after runs counted runs (and no dry
\* run) whose durations are drawn from StatValues
StatsInit ==
  /\ mode = "tcp-connect"
  /\ executable = "server"
  /\ dryRuns = 0
  /\ runs \in 1..MaxStatRuns
  /\ durations \in [1..runs -> StatValues]
  /\ pc = "stat_min"
  /\ err = "none"
  /\ phase = "stats"
  /\ i = runs
  /\ now = Sum(durations)
  /\ duration = durations[runs]
  /\ start = now - duration
  /\ children = [k \in 1..runs |-> [st |-> "reaped", sig |-> TRUE]]
  /\ cmd = runs
  /\ lastProbe = NoProbe
  /\ attempts = <<TRUE>>
  /\ held = "closed"
  /\ unreleased = 0
  /\ pauses = runs
  /\ measured = [k \in 1..runs |-> [phase |-> "run", val |-> durations[k]]]
  /\ output = <<[cat |-> "dry-header"], [cat |-> "run-header"]>>
                 \o [k \in 1..runs |-> Line("run", durations[k])]

StatsNext ==
  \/ StatMin \/ StatMax \/ StatMedian \/ StatOutliers
  \/ StatPercentiles \/ StatPercentile

StatsSpec == StatsInit /\ [][StatsNext]_vars

\* ------------------------------------------------------------- typing
TypeOK ==
  /\ mode \in Modes /\ executable \in Executables
  /\ dryRuns \in 0..MaxDryRuns /\ runs \in 0..MaxRuns
  /\ now \in 0..MaxClock /\ start \in 0..MaxClock /\ duration \in 0..MaxClock
  /\ cmd \in 0..Len(children)
  /\ Len(durations) \in {0, runs}
  /\ unreleased \in 0..MaxAttempts
  /\ held \in {"none", "open", "closed"}
  /\ err \in {"none", "no-executable", "unknown-mode", "spawn"}

\* ------------------------------------------------- shared vocabulary
\* positions of measure between a successful spawn and its return
CycleRunning == {"m_poll", "m_since", "m_release", "m_kill", "m_wait"}

AliveChildren == {c \in 1..Len(children) : Alive(children[c])}

TornDown(c) == children[c].st = "reaped" /\ children[c].sig

\* the attempts of a cycle that ended: failures only, then one success
SuccessLast(a) ==
  /\ Len(a) >= 1
  /\ a[Len(a)] = TRUE
  /\ \A k \in 1..(Len(a) - 1) : a[k] = FALSE

AllFailed(a) == \A k \in 1..Len(a) : a[k] = FALSE

LinesOf(cats) == {k \in 1..Len(output) : output[k].cat \in cats}

\* the values measure returned to the loop of the counted runs
IsCounted(m) == m.phase = "run"
Counted == SelectSeq(measured, IsCounted)

Rank(cat) == IF cat \in {"dry-header", "dry"} THEN 0
             ELSE IF cat \in {"run-header", "run"} THEN 1
             ELSE 2

\* ------------------------------------------------------------------ C1
\* C1: at most one spawned child is alive at any time; every child but the
\* one of the running cycle has been sent the kill signal and waited for,
\* and so has every child once measure has returned.
C1_OneChildAtATime ==
  /\ Cardinality(AliveChildren) <= 1
  /\ \A c \in 1..Len(children) :
        (c < Len(children) \/ pc \notin CycleRunning) => TornDown(c)

C1_Witness ==
  /\ Len(children) >= 2
  /\ TornDown(1)
  /\ Alive(children[2])

\* ------------------------------------------------------------------ C2
\* C2: measure returns only after an attempt of the same cycle succeeded,
\* all attempts before it having failed; while polling, an attempt is always
\* possible, and a step out of the polling position is a successful attempt:
\* a failed one leads back to polling, with no pause.
C2_PollUntilSuccess ==
  /\ [](pc = "m_poll" => ENABLED Probe)
  /\ [][ /\ (measured' # measured => SuccessLast(attempts))
         /\ (pc = "m_poll" =>
               \/ pc' = "m_poll" /\ pauses' = pauses /\ AllFailed(attempts')
               \/ pc' = "m_since" /\ lastProbe'.status /\ SuccessLast(attempts')) ]_vars

C2_Witness ==
  /\ pc \in {"dry_report", "run_record"}
  /\ Len(attempts) = MaxAttempts + 1
  /\ SuccessLast(attempts)

\* ------------------------------------------------------------------ C3
\* C3: when the loops are over, dryRuns + runs cycles have run and durations
\* holds exactly the values of the counted runs, in order; before that, a
\* slot of durations holds the value of its counted run or still 0, never
\* the value of a dry run.
C3_RunSetIsCountedRuns ==
  /\ \A k \in 1..Len(durations) :
        IF k <= Len(Counted)
        THEN \/ durations[k] = Counted[k].val
             \/ k = Len(Counted) /\ pc = "run_record" /\ durations[k] = 0
        ELSE durations[k] = 0
  /\ phase = "stats" =>
        /\ Len(measured) = dryRuns + runs
        /\ Len(children) = dryRuns + runs
        /\ Len(durations) = runs
        /\ \A k \in 1..dryRuns : measured[k].phase = "dry"
        /\ \A k \in 1..runs : /\ measured[dryRuns + k].phase = "run"
                               /\ durations[k] = measured[dryRuns + k].val

C3_Witness ==
  /\ pc = "done"
  /\ dryRuns >= 1
  /\ runs >= 2
  /\ durations[1] # durations[2]
  /\ measured[1].val # durations[1]

\* ------------------------------------------------------------------ C4
\* C4: a statistic is printed only when all dry and counted runs have
\* completed and been recorded; durations does not change once a statistic
\* has been printed; the output holds the dry runs, then the counted runs,
\* then the statistics.
C4_StatsAfterAllRuns ==
  /\ []( (phase = "stats" \/ LinesOf(StatCats) # {}) =>
           /\ Len(measured) = dryRuns + runs
           /\ Cardinality(LinesOf({"dry"})) = dryRuns
           /\ Cardinality(LinesOf({"run"})) = runs
           /\ Len(durations) = runs
           /\ pc \notin CycleRunning )
  /\ [](\A a, b \in 1..Len(output) :
           a < b => Rank(output[a].cat) <= Rank(output[b].cat))
  /\ [][LinesOf(StatCats) # {} => durations' = durations]_vars

C4_Witness ==
  /\ pc = "done"
  /\ dryRuns >= 1
  /\ runs >= 2
  /\ Cardinality(LinesOf(StatCats)) = 7 + Len(percentiles)

\* ------------------------------------------------------------------ C5
\* C5: with runs = 0 no statistic (min, max, median, standard deviation,
\* outliers, percentiles) is computed or reported.
C5_NoStatsOnEmptyRunSet ==
  runs = 0 => LinesOf(StatCats) = {}

\* ------------------------------------------------------------------ C6
\* C6: with an unknown mode or no executable, no child is spawned, no
\* attempt is made, no measurement is reported, and the tool never
\* completes normally.
C6_ConfigErrorIsFatal ==
  (connectionFunctionFor(mode) = "log.Fatal" \/ executable = "") =>
     /\ children = <<>>
     /\ attempts = <<>> /\ lastProbe = NoProbe
     /\ measured = <<>> /\ LinesOf({"dry", "run"}) = {}
     /\ pc # "done"

\* ------------------------------------------------------------------ C7
\* C7: once a spawn has failed the tool has aborted: no attempt was made in
\* that cycle, nothing was recorded for it, no statistic is printed, and
\* nothing happens afterwards (no later cycle, no output).
C7_SpawnFailureAborts ==
  /\ [](err = "spawn" =>
           /\ pc = "fatal"
           /\ attempts = <<>> /\ lastProbe = NoProbe
           /\ Len(measured) = Len(children)
           /\ Cardinality(LinesOf({"dry", "run"})) <= Len(measured)
           /\ LinesOf(StatCats) = {}
           /\ AliveChildren = {})
  /\ [][err = "spawn" =>
          UNCHANGED <<pc, err, children, attempts, lastProbe, measured,
                      durations, output, pauses>>]_vars

C7_Witness ==
  /\ err = "spawn"
  /\ Len(children) >= 1
  /\ phase = "run"

\* ------------------------------------------------------------------ C8
\* C8: there is no polling timeout: as long as no attempt of the cycle has
\* succeeded the driver stays in the polling loop, whatever the number of
\* failed attempts; the child is not signalled, no cycle starts, nothing is
\* returned, recorded or printed.
C8_NoPollingTimeout ==
  [][(pc = "m_poll" /\ ~lastProbe'.status) =>
        /\ pc' = "m_poll"
        /\ ~children'[cmd'].sig
        /\ Len(children') = Len(children)
        /\ UNCHANGED <<cmd, measured, durations, output, pauses, i, phase>>]_vars

C8_Witness ==
  /\ pc = "m_poll"
  /\ Len(attempts) = MaxAttempts
  /\ AllFailed(attempts)
  /\ now = MaxClock
  /\ ~children[cmd].sig

\* ------------------------------------------------------------------ C9
\* C9: httpGet succeeds iff there is no transport error and the status is
\* exactly 200, and on success the whole body has been read; tcpConnect
\* succeeds iff the connection opened.
C9_ProbeVerdict ==
  /\ lastProbe.kind = "http" =>
        /\ lastProbe.status <=> (~lastProbe.err /\ lastProbe.code = 200)
        /\ lastProbe.status => lastProbe.read = lastProbe.body
  /\ lastProbe.kind = "tcp" => (lastProbe.status <=> ~lastProbe.err)

\* ----------------------------------------------------------------- C10
\* C10: an attempt returns a release action iff it succeeded, the one that
\* closes what it opened; measure never calls an absent release action, and
\* after the call the resource of the successful attempt is closed.
C10_ReleaseIffSuccess ==
  /\ lastProbe.kind # "none" =>
        /\ lastProbe.status <=> lastProbe.houseKeeper # "nil"
        /\ lastProbe.status =>
              lastProbe.houseKeeper =
                 IF lastProbe.kind = "tcp" THEN "conn.Close" ELSE "resp.Body.Close"
  /\ pc # "panic"
  /\ pc \in {"m_since", "m_release"} => held = "open" /\ lastProbe.status
  /\ pc \in {"m_kill", "m_wait"} => held = "closed"

C10_Witness ==
  /\ pc = "m_kill"
  /\ held = "closed"
  /\ lastProbe.kind = "http"
  /\ Len(attempts) >= 2

\* ----------------------------------------------------------------- C11
\* the printed line of a statistic
Reported(cat) == output[CHOOSE k \in LinesOf({cat}) : TRUE]

\* C11: on a run set of size >= 1 the reported statistics satisfy
\* min <= median <= max (and none of them is undefined).
C11_MinMedianMax ==
  (runs >= 1 /\ LinesOf({"median"}) # {}) =>
     LET mn == Reported("min").d
         md == Reported("median").d
         mx == Reported("max").d
     IN  /\ ~mn.nan /\ ~md.nan /\ ~mx.nan
         /\ mn.val <= md.val
         /\ md.val <= mx.val
         /\ \A k \in 1..Len(durations) : mn.val <= durations[k] /\ durations[k] <= mx.val

C11_Witness ==
  /\ runs >= 3
  /\ LinesOf({"median"}) # {}
  /\ Reported("min").d.val < Reported("median").d.val
  /\ Reported("median").d.val < Reported("max").d.val

\* ----------------------------------------------------------------- C12
AllEqual(d) == \A j, k \in 1..Len(d) : d[j] = d[k]

\* C12: on a run set of size >= 1 whose values all equal v, every reported
\* statistic is v (min, max, median, each of the ten percentiles), the
\* standard deviation is 0 and both outlier lists are empty.
C12_AllEqualRunSet ==
  (runs >= 1 /\ AllEqual(durations)) =>
     /\ \A k \in LinesOf({"min", "max", "median", "percentile"}) :
           ~output[k].d.nan /\ output[k].d.val = durations[1]
     /\ \A k \in LinesOf({"median"}) :
           ~output[k].dev.nan /\ output[k].dev.val = 0
     /\ \A k \in LinesOf({"mild", "extreme"}) : output[k].ds = <<>>
     /\ pc = "done" =>
           {output[k].p : k \in LinesOf({"percentile"})}
              = {percentiles[j] : j \in 1..Len(percentiles)}

C12_Witness ==
  /\ pc = "done"
  /\ runs >= 2
  /\ AllEqual(durations)
  /\ Reported("median").d.val = 1000
  /\ Cardinality(LinesOf({"percentile"})) = Len(percentiles)

\* ----------------------------------------------------------------- C13
\* quartiles of the run set, in 1/1000
Q1 == statsPercentile(durations, 250).num
Q3 == statsPercentile(durations, 750).num

\* distance of v beyond its nearest quartile, in 1/1000 (0 between Q1 and Q3)
Beyond(v) == IF 1000 * v > Q3 THEN 1000 * v - Q3
             ELSE IF 1000 * v < Q1 THEN Q1 - 1000 * v
             ELSE 0

IsMild(v)    == 2 * Beyond(v) > 3 * (Q3 - Q1) /\ Beyond(v) <= 3 * (Q3 - Q1)
IsExtreme(v) == Beyond(v) > 3 * (Q3 - Q1)

Values(q) == {q[k] : k \in 1..Len(q)}

NormalEnd ==
  /\ pc = "done"
  /\ AliveChildren = {}
  /\ Cardinality(LinesOf(StatCats)) = 7 + Len(percentiles)

\* C14: when benchmark is called (an executable is given), no spawn fails
\* and every cycle (every call of measure) comes to a successful attempt,
\* the tool eventually ends normally: the whole statistics block is printed
\* and no child is alive.
C14_TerminatesNormally ==
  ( /\ executable # ""
    /\ [](err # "spawn")
    /\ [](pc = "m_resolve" => <>(pc = "m_since")) )
  => <>NormalEnd

C14_Witness ==
  /\ NormalEnd
  /\ Len(children) = dryRuns + runs
  /\ Len(children) >= 2
  /\ \A c \in 1..Len(children) : TornDown(c)

\* ----------------------------------------------------------------- C15
\* C15: in a cycle the mode is resolved, then the start time is taken, then
\* the child is spawned, then attempts are made; after the first successful
\* attempt the duration is computed, then the release action is called
\* (once), then the signal is sent, then the child is waited for.  The
\* value returned is the one computed before release and teardown.
C15_CycleOrder ==
  /\ [](pc \in {"m_start", "m_boot"} =>
           /\ connectionFunctionFor(mode) # "log.Fatal"
           /\ cmd = 0 /\ attempts = <<>> /\ held = "none")
  /\ [](pc = "m_boot" => start <= now)
  /\ [](pc = "m_poll" =>
           /\ cmd > 0 /\ children[cmd].st # "reaped" /\ ~children[cmd].sig
           /\ AllFailed(attempts) /\ held = "none")
  /\ [](pc \in {"m_since", "m_release"} =>
           SuccessLast(attempts) /\ held = "open" /\ ~children[cmd].sig)
  /\ [](pc = "m_kill" =>
           held = "closed" /\ ~children[cmd].sig /\ children[cmd].st # "reaped")
  /\ [](pc = "m_wait" =>
           held = "closed" /\ children[cmd].sig /\ children[cmd].st # "reaped")
  /\ [][ /\ (held' # held /\ held' = "closed") => (pc = "m_release" /\ held = "open")
         /\ (pc = "m_since" /\ pc' # pc) => (pc' = "m_release" /\ duration' = now - start)
         /\ pc \in {"m_release", "m_kill", "m_wait"} => duration' = duration
         /\ measured' # measured =>
               /\ pc = "m_wait"
               /\ measured' = Append(measured, [phase |-> phase, val |-> duration])
               /\ TornDown(cmd)' ]_vars

C15_Witness ==
  /\ pc \in {"dry_report", "run_record"}
  /\ Len(attempts) >= 2
  /\ duration >= 1
  /\ now - start > duration
  /\ measured[Len(measured)].val = duration

\* ----------------------------------------------------------------- C16
AfterMeasure == {"dry_report", "dry_sleep", "run_record", "run_sleep"}

\* C16: there is one pause per completed cycle, dry or counted, the last of
\* each loop included: dryRuns + runs pauses when the statistics start.  A
\* pause happens when every child has exited, a spawn only when every
\* earlier cycle has had its pause, and no statistic is printed before the
\* last pause.
C16_PauseAfterEveryCycle ==
  /\ [](pauses = Len(measured) - (IF pc \in AfterMeasure THEN 1 ELSE 0))
  /\ [](phase = "stats" => pauses = dryRuns + runs)
  /\ [](LinesOf(StatCats) # {} => pauses = dryRuns + runs)
  /\ [][ /\ pauses' # pauses =>
               /\ pauses' = pauses + 1
               /\ pc \in {"dry_sleep", "run_sleep"}
               /\ \A c \in 1..Len(children) : TornDown(c)
               /\ children' = children
         /\ Len(children') > Len(children) => pauses = Len(children) ]_vars

C16_Witness ==
  /\ pc = "stat_min"
  /\ dryRuns >= 1
  /\ runs >= 1
  /\ pauses = dryRuns + runs

\* ----------------------------------------------------------------- C17
\* C17: a failed attempt changes nothing of the runner: start time, child,
\* durations, counters, output and flags are as before, nothing is printed
\* or recorded, and the driver is again about to make an attempt.
C17_FailedProbeNoEffect ==
  /\ [](pc = "m_poll" => ENABLED Probe /\ ~ENABLED Since /\ ~ENABLED Kill)
  /\ [][ (pc = "m_poll" /\ now' = now /\ children' = children) =>
            \/ /\ lastProbe'.status
               /\ pc' = "m_since"
            \/ /\ ~lastProbe'.status
               /\ pc' = "m_poll"
               /\ UNCHANGED <<config, err, phase, i, start, duration, durations,
                              cmd, held, pauses, measured, output>> ]_vars

C17_Witness ==
  /\ pc = "m_poll"
  /\ lastProbe.kind = "tcp"
  /\ lastProbe.err
  /\ Len(attempts) = MaxAttempts
  /\ Len(measured) >= 1
  /\ now > start

\* ----------------------------------------------------------------- C18
Non200(r) == r.kind = "http" /\ ~r.err /\ r.code # 200

\* C18: every http attempt that got a response with a status other than 200
\* leaves one more unreleased response, and nothing ever releases one (the
\* count only grows; it is followed up to MaxAttempts); tcp attempts and
\* transport errors leave none.  The resource of the successful attempt is
\* released once, before measure returns.
C18_Non200NeverReleased ==
  /\ [](mode # "http-get" => unreleased = 0)
  /\ [][ /\ unreleased' >= unreleased
         /\ (pc = "m_poll" /\ now' = now /\ children' = children) =>
               unreleased' = IF Non200(lastProbe') /\ unreleased < MaxAttempts
                             THEN unreleased + 1
                             ELSE unreleased
         /\ unreleased' # unreleased => pc = "m_poll"
         /\ (held' # held /\ held' = "closed") => held = "open"
         /\ measured' # measured => held = "closed" ]_vars

C18_Witness ==
  /\ pc \in {"dry_report", "run_record"}
  /\ mode = "http-get"
  /\ unreleased = MaxAttempts
  /\ held = "closed"

\* ----------------------------------------------------------------- C19
\* C19: when the tool has aborted (no executable, unknown mode, failed
\* spawn) no child is alive: every child started was killed and waited for.
\* The mode is resolved and the spawn attempted while no child is alive, and
\* a failed spawn adds no child.
C19_FatalLeavesNoChild ==
  /\ pc = "fatal" =>
        /\ err \in {"no-executable", "unknown-mode", "spawn"}
        /\ AliveChildren = {}
        /\ \A c \in 1..Len(children) : TornDown(c)
  /\ pc \in {"m_resolve", "m_start", "m_boot"} => AliveChildren = {}
  /\ err = "spawn" => cmd = 0 /\ Len(children) = Len(measured)
  /\ err \in {"no-executable", "unknown-mode"} => children = <<>>

C19_Witness ==
  /\ pc = "fatal"
  /\ err = "spawn"
  /\ Len(children) >= 2

====
